---- MODULE Spec2Model ----
(***************************************************************************)
(* EasySwap order synchronisation: the chain event ingester               *)
(* (orderbookindexer.Service), the listings queue and the trade-event     *)
(* queue it feeds, and the order manager's workers that consume them.     *)
(***************************************************************************)
EXTENDS Integers, Sequences, FiniteSets, TLC

VARIABLES
    orders,            \* orders table: order_id -> row (a function on the ids present)
    items,             \* items table: (collection, token_id) -> owner
    activities,        \* activities table: set of rows, unique per log
    ordersQueue,       \* listings queue cache:es:orders:{chain}
    tradeEvents,       \* trade-event queue cache:es:trade:events:{chain}
    nEvents,           \* number of logs handled so far (bounded)
    lastLog,           \* the log the ingester handled last, or NoLog
    pc,                \* position of SyncOrderBookEventLoop
    lastSyncBlock,     \* local cursor of the loop
    last_indexed_block,\* indexed_status.last_indexed_block (persisted)
    currentBlockNum,   \* head returned by chainClient.BlockNumber()
    query,             \* last FilterQuery sent: <<from, to>>, or << >>
    logs,              \* logs of the current batch still to dispatch
    ctxDone,           \* root context cancelled
    restarts,          \* number of process restarts so far (bounded)
    chainDiff,         \* MultiChainMaxBlockDifference[s.chain]
    stream,            \* batch replay: the log stream
    prefixLen,         \* batch replay: length of the replayed prefix
    rp,                \* batch replay: position in prefix ++ stream
    now,               \* wall clock of the order manager, in seconds
    CurrentIndex,      \* time wheel: slot the next tick walks
    wheel,             \* time wheel: its nodes, newest first
    PriceQueueMap,     \* floor engine: collection -> price heap
    floor_price,       \* collection.floor_price column
    floorCache,        \* floor price held under the cache key
    applied,           \* floor engine: the trade event applied last
    reloadResult,      \* floor engine: the reload in that event: none, ok, failed
    collectionListedCh,\* signal channel from the engine to the aggregator
    pending,           \* aggregator: collections waiting for a recount
    listedCount,       \* cache key collection:listed:{addr}
    mainPc,            \* daemon: position of Run (select, wg.Wait, returned)
    svcPc,             \* daemon: position of the service goroutine
    onSyncExit,        \* daemon: the error channel of the service goroutine
    PprofEnable,       \* daemon: cfg.Monitor.PprofEnable
    loopPc,            \* position of each long-lived loop but the ingester
    balance,           \* order book contract: the ETH it holds
    settlement,        \* order book contract: outcome of the last matchOrder
    nCalls             \* order book contract: calls made so far (bounded)

vars == << orders, items, activities, ordersQueue, tradeEvents, nEvents, lastLog,
           pc, lastSyncBlock, last_indexed_block, currentBlockNum, query, logs,
           ctxDone, restarts, chainDiff, stream, prefixLen, rp,
           now, CurrentIndex, wheel, PriceQueueMap, floor_price, floorCache,
           applied, reloadResult, collectionListedCh, pending, listedCount,
           mainPc, svcPc, onSyncExit, PprofEnable, loopPc,
           balance, settlement, nCalls >>

dbVars   == << orders, items, activities, ordersQueue, tradeEvents >>
contractVars == << balance, settlement, nCalls >>
daemonVars == << mainPc, svcPc, onSyncExit, PprofEnable, loopPc, contractVars >>
syncVars == << pc, lastSyncBlock, last_indexed_block, currentBlockNum, query,
               logs, ctxDone, restarts, chainDiff, daemonVars >>
replayVars == << stream, prefixLen, rp >>
aggVars  == << collectionListedCh, pending, listedCount >>
omVars   == << now, CurrentIndex, wheel, PriceQueueMap, floor_price, floorCache,
               applied, reloadResult, aggVars >>

-----------------------------------------------------------------------------
(* Bounds of the model *)

\* logs handled in one behaviour of the event-driven specifications
MaxEvents == 3
\* call sites of one handler invocation that may fail together
MaxFaults == 1
\* highest head block the chain client reports
MaxHead == 13
\* process restarts (crashes) in one behaviour
MaxRestarts == 1
\* length of the log stream of the batch replay
MaxStream == 3
\* logs handled in one behaviour of the pipeline specification
MaxPipelineEvents == 3
\* seconds the clock of the order manager runs
MaxNow == 2
\* entries a price heap holds at most; the program's heaps hold 100
HeapCap == 2
\* trade events waiting in the queue when the backend pushes one more
MaxQueue == 1
\* collection addresses the signal channel of the aggregator buffers
ChanCap == 1
\* latest second at which the worker inserts the order in the wheel
MaxInsertNow == 2
\* seconds the clock runs when the wheel is followed over more than one turn
MaxWheelNow == 3606

-----------------------------------------------------------------------------
(* Program constants *)

SleepInterval   == 10
SyncBlockPeriod == 10

\* sides and sale kinds of the contract's LibOrder
FixForCollection == 0
FixForItem       == 1
List             == 0
Bid              == 1

ZeroAddress == "0x00"

\* Order types, statuses and activity types of the multi package are used by
\* name only.
ListingOrder       == "ListingOrder"
CollectionBidOrder == "CollectionBidOrder"
ItemBidOrder       == "ItemBidOrder"

OrderStatusActive    == "Active"
OrderStatusFilled    == "Filled"
OrderStatusCancelled == "Cancelled"
OrderStatusExpired   == "Expired"

-----------------------------------------------------------------------------
(* Machine integers.  TLC's integers are 32 bits wide, so the 64-bit words  *)
(* of the program are modelled 16 bits wide: Int64Mod stands for 2^64.      *)

Int64Mod == 2 ^ 16

\* uint64 subtraction and addition (wrap around)
USub(a, b) == (a - b + Int64Mod) % Int64Mod
UAdd(a, b) == (a + b) % Int64Mod

\* big.Int.Int64() and int64(uint64): the low 64 bits read as a signed word
Int64(x) ==
    LET m == x % Int64Mod
    IN  IF m >= Int64Mod \div 2 THEN m - Int64Mod ELSE m

-----------------------------------------------------------------------------
(* Addresses: common.Address.String() yields the mixed-case checksum form;  *)
(* strings.ToLower yields the lower-case form.                              *)

Makers == {"0xAa", "0xBb", "0xCc", "0xDd"}

ToLower(a) ==
    CASE a = "0xAa" -> "0xaa"
      [] a = "0xBb" -> "0xbb"
      [] a = "0xCc" -> "0xcc"
      [] a = "0xDd" -> "0xdd"
      [] OTHER      -> a

-----------------------------------------------------------------------------
(* The on-chain orders the logs speak of.  An order key is the hash of the  *)
(* order, so an order id fixes the order's content.  T1 is a taker's order  *)
(* that was never placed on the book: no LogMake exists for it.             *)

OrderIds == {"L1", "L2", "B1", "B2", "T1"}

ChainOrder(id) ==
    CASE id = "L1" -> [side |-> List, saleKind |-> FixForItem, maker |-> "0xAa",
                       collection |-> "c1", tokenId |-> 1, amount |-> 1,
                       price |-> 2, expiry |-> 1]
      [] id = "L2" -> [side |-> List, saleKind |-> FixForItem, maker |-> "0xBb",
                       collection |-> "c1", tokenId |-> 2, amount |-> 1,
                       price |-> 1, expiry |-> 0]
      [] id = "B1" -> [side |-> Bid, saleKind |-> FixForCollection, maker |-> "0xCc",
                       collection |-> "c1", tokenId |-> 0, amount |-> 2,
                       price |-> 2, expiry |-> 0]
      [] id = "B2" -> [side |-> Bid, saleKind |-> FixForCollection, maker |-> "0xCc",
                       collection |-> "c1", tokenId |-> 0, amount |-> Int64Mod \div 2,
                       price |-> 1, expiry |-> 0]
      [] id = "T1" -> [side |-> Bid, saleKind |-> FixForItem, maker |-> "0xDd",
                       collection |-> "c1", tokenId |-> 1, amount |-> 1,
                       price |-> 2, expiry |-> 0]

\* The items table holds one row per NFT, keyed by (collection, token id).
ItemKeys == {<<"c1", 1>>, <<"c1", 2>>}

\* A log: its kind, the order ids of its topics, and its transaction.
\* Match logs carry the fill price, which the contract sets to the price of the
\* order that was on the book.
MakeLog(tx, id)   == [kind |-> "Make",   tx |-> tx, order |-> id, take |-> id,
                      fillPrice |-> 0]
CancelLog(tx, id) == [kind |-> "Cancel", tx |-> tx, order |-> id, take |-> id,
                      fillPrice |-> 0]
MatchLog(tx, mk, tk, fp) ==
                     [kind |-> "Match",  tx |-> tx, order |-> mk, take |-> tk,
                      fillPrice |-> fp]

-----------------------------------------------------------------------------
(* The database and the two queues, as one value the handlers transform.    *)

DB == [orders |-> orders, items |-> items, activities |-> activities,
       ordersQueue |-> ordersQueue, tradeEvents |-> tradeEvents]

SetDB(d) ==
    /\ orders'      = d.orders
    /\ items'       = d.items
    /\ activities'  = d.activities
    /\ ordersQueue' = d.ordersQueue
    /\ tradeEvents' = d.tradeEvents

\* the sets of call sites that fail in one invocation of a handler
Faults(sites) == {F \in SUBSET sites : Cardinality(F) <= MaxFaults}

\* Create(&row) with clause.OnConflict{DoNothing: true} on the orders table
CreateOrder(d, id, row) ==
    IF id \notin DOMAIN d.orders THEN [d EXCEPT !.orders = @ @@ (id :> row)] ELSE d

\* Table(orders).Where("order_id = ?", id).Updates(fields): a missing row is
\* no error, zero rows are affected
UpdateOrder(d, id, fields) ==
    IF id \notin DOMAIN d.orders THEN d
    ELSE [d EXCEPT !.orders[id] =
            [k \in DOMAIN @ |-> IF k \in DOMAIN fields THEN fields[k] ELSE @[k]]]

\* Create(&activity) with clause.OnConflict{DoNothing: true}: one row per log
CreateActivity(d, act) ==
    IF \E a \in d.activities : a.tx = act.tx THEN d
    ELSE [d EXCEPT !.activities = @ \cup {act}]

\* Table(items).Where("collection_address = ? and token_id = ?").Update("owner")
UpdateItemOwner(d, key, owner) ==
    IF key \in DOMAIN d.items THEN [d EXCEPT !.items[key] = owner] ELSE d

\* ordermanager.AddUpdatePriceEvent: push onto the trade-event queue
AddUpdatePriceEvent(d, ev) == [d EXCEPT !.tradeEvents = Append(@, ev)]

\* OrderManager.AddToOrderManagerQueue: push onto the listings queue
AddToOrderManagerQueue(d, info) == [d EXCEPT !.ordersQueue = Append(@, info)]

-----------------------------------------------------------------------------
(* handleMakeEvent *)

OrderTypeOf(o) ==
    IF o.side = Bid
    THEN IF o.saleKind = FixForCollection THEN CollectionBidOrder ELSE ItemBidOrder
    ELSE ListingOrder

MakeActivityType(o) ==
    IF o.side = Bid
    THEN IF o.saleKind = FixForCollection THEN "CollectionBid" ELSE "ItemBid"
    ELSE "Listing"

NewOrder(id) ==
    LET o == ChainOrder(id)
    IN  [order_id           |-> id,
         collection_address |-> o.collection,
         token_id           |-> o.tokenId,
         order_status       |-> OrderStatusActive,
         expire_time        |-> Int64(o.expiry),
         price              |-> o.price,
         maker              |-> o.maker,
         taker              |-> ZeroAddress,
         quantity_remaining |-> Int64(o.amount),
         size               |-> Int64(o.amount),
         order_type         |-> OrderTypeOf(o)]

\* a handler that goes on with a log whose data did not decode
AlwaysUnpacked(F) == TRUE

\* UnpackIntoInterface(&event, name, log.Data) returned no error
Unpacked(F) == "unpack" \notin F

MakeFaultSites == {"unpack", "createOrder", "blockTime", "createActivity", "queue"}

handleMakeEvent(d, log, F) ==
    IF ~Unpacked(F) THEN d
    ELSE
      LET id  == log.order
          o   == ChainOrder(id)
          row == NewOrder(id)
          d1  == IF "createOrder" \in F THEN d ELSE CreateOrder(d, id, row)
          act == [tx |-> log.tx, activity_type |-> MakeActivityType(o),
                  maker |-> o.maker, taker |-> ZeroAddress,
                  collection_address |-> o.collection, token_id |-> o.tokenId,
                  price |-> o.price]
          d2  == IF "createActivity" \in F THEN d1 ELSE CreateActivity(d1, act)
          d3  == IF "queue" \in F THEN d2
                 ELSE AddToOrderManagerQueue(d2,
                        [expire_time |-> row.expire_time, order_id |-> id,
                         collection_address |-> row.collection_address,
                         token_id |-> row.token_id, price |-> row.price,
                         maker |-> row.maker])
      IN  IF "blockTime" \in F THEN d1 ELSE d3

-----------------------------------------------------------------------------
(* handleMatchEvent *)

MatchFaultSites == {"unpack", "sellUpdate", "buyGet", "buyUpdate", "blockTime",
                    "createActivity", "itemUpdate", "queue"}

\* the buy order set Filled whatever quantity remains
BuyOrderFilled(buyOrder) ==
    [order_status |-> OrderStatusFilled, quantity_remaining |-> 0]

\* the columns written to the buy order: one unit less while more than one
\* remains, else Filled
BuyOrderUpdate(buyOrder) ==
    IF buyOrder.quantity_remaining > 1
    THEN [quantity_remaining |-> buyOrder.quantity_remaining - 1]
    ELSE [order_status |-> OrderStatusFilled, quantity_remaining |-> 0]

handleMatchEvent(d, log, F) ==
    IF ~Unpacked(F) THEN d
    ELSE
      LET makeOrderId == log.order
          takeOrderId == log.take
          MakeOrder   == ChainOrder(makeOrderId)
          TakeOrder   == ChainOrder(takeOrderId)
          bidMade     == MakeOrder.side = Bid
          \* the branch taken fixes which id is the sell order and which the buy
          sellOrderId == IF bidMade THEN takeOrderId ELSE makeOrderId
          buyOrderId  == IF bidMade THEN makeOrderId ELSE takeOrderId
          sellSide    == IF bidMade THEN TakeOrder ELSE MakeOrder
          buySide     == IF bidMade THEN MakeOrder ELSE TakeOrder
          owner       == ToLower(buySide.maker)
          collection  == sellSide.collection
          tokenId     == sellSide.tokenId
          from        == sellSide.maker
          to          == buySide.maker
          d1 == UpdateOrder(d, sellOrderId,
                   [order_status |-> OrderStatusFilled, quantity_remaining |-> 0,
                    taker |-> to])
          buyOrder == d1.orders[buyOrderId]
          d2 == UpdateOrder(d1, buyOrderId, BuyOrderUpdate(buyOrder))
          act == [tx |-> log.tx, activity_type |-> "Sale",
                  maker |-> MakeOrder.maker, taker |-> TakeOrder.maker,
                  collection_address |-> collection, token_id |-> tokenId,
                  price |-> log.fillPrice]
          d3 == IF "createActivity" \in F THEN d2 ELSE CreateActivity(d2, act)
          d4 == UpdateItemOwner(d3, <<collection, tokenId>>, owner)
          d5 == IF "queue" \in F THEN d4
                ELSE AddUpdatePriceEvent(d4,
                        [event_type |-> "Buy", order_id |-> sellOrderId,
                         collection_addr |-> collection, token_id |-> tokenId,
                         from |-> from, to |-> to, price |-> 0])
      IN  IF "sellUpdate" \in F THEN d
          ELSE IF "buyGet" \in F \/ buyOrderId \notin DOMAIN d1.orders THEN d1
          ELSE IF "buyUpdate" \in F THEN d1
          ELSE IF "blockTime" \in F THEN d2
          ELSE IF "itemUpdate" \in F THEN d3
          ELSE d5

-----------------------------------------------------------------------------
(* handleCancelEvent *)

CancelActivityType(row) ==
    IF row.order_type = ListingOrder THEN "CancelListing"
    ELSE IF row.order_type = CollectionBidOrder THEN "CancelCollectionBid"
    ELSE "CancelItemBid"

CancelFaultSites == {"update", "get", "blockTime", "createActivity", "queue"}

handleCancelEvent(d, log, F) ==
    LET orderId == log.order
        d1 == UpdateOrder(d, orderId, [order_status |-> OrderStatusCancelled])
        cancelOrder == d1.orders[orderId]
        act == [tx |-> log.tx, activity_type |-> CancelActivityType(cancelOrder),
                maker |-> cancelOrder.maker, taker |-> ZeroAddress,
                collection_address |-> cancelOrder.collection_address,
                token_id |-> cancelOrder.token_id, price |-> cancelOrder.price]
        d2 == IF "createActivity" \in F THEN d1 ELSE CreateActivity(d1, act)
        d3 == IF "queue" \in F THEN d2
              ELSE AddUpdatePriceEvent(d2,
                      [event_type |-> "Cancel", order_id |-> cancelOrder.order_id,
                       collection_addr |-> cancelOrder.collection_address,
                       token_id |-> cancelOrder.token_id,
                       from |-> "", to |-> "", price |-> 0])
    IN  IF "update" \in F THEN d
        ELSE IF "get" \in F \/ orderId \notin DOMAIN d1.orders THEN d1
        ELSE IF "blockTime" \in F THEN d1
        ELSE d3

\* the dispatch on Topics[0] in SyncOrderBookEventLoop
FaultSitesOf(log) ==
    CASE log.kind = "Make"   -> MakeFaultSites
      [] log.kind = "Cancel" -> CancelFaultSites
      [] log.kind = "Match"  -> MatchFaultSites

Dispatch(d, log, F) ==
    CASE log.kind = "Make"   -> handleMakeEvent(d, log, F)
      [] log.kind = "Cancel" -> handleCancelEvent(d, log, F)
      [] log.kind = "Match"  -> handleMatchEvent(d, log, F)

-----------------------------------------------------------------------------
(* Initial values *)

-----------------------------------------------------------------------------
(* The order manager (package ordermanager): the new-listing worker, the    *)
(* time wheel and the floor-price engine, as the design documents give them. *)

Collections == {"c1"}

WheelSize == 3600

Max(a, b) == IF a >= b THEN a ELSE b

TradeEvent(type, id, c, tok, from, to, price) ==
    [event_type |-> type, order_id |-> id, collection_addr |-> c,
     token_id |-> tok, from |-> from, to |-> to, price |-> price]

NoEvent == TradeEvent("None", "", "", 0, "", "", 0)

\* Insert(order, expire_time): the node is prepended to the list of its slot
\* an insert that forgets the turns of the wheel
addWithoutCycles(w, idx, t, o) ==
    LET delta == Max(0, o.expire_time - t)
        node  == [order_id |-> o.order_id,
                  collection_address |-> o.collection_address,
                  token_id |-> o.token_id,
                  CycleCount |-> 0,
                  WheelPosition |-> (idx + (delta % WheelSize)) % WheelSize]
    IN  << node >> \o w

addToOrderExpiryCheckQueue(w, idx, t, o) ==
    LET delta == Max(0, o.expire_time - t)
        node  == [order_id |-> o.order_id,
                  collection_address |-> o.collection_address,
                  token_id |-> o.token_id,
                  CycleCount |-> delta \div WheelSize,
                  WheelPosition |-> (idx + (delta % WheelSize)) % WheelSize]
    IN  << node >> \o w

\* a fired node whose only test is that the order's row exists
RowExists(tbl, id) == id \in DOMAIN tbl

\* the re-verification of a fired node: the order is expired only if its row
\* is still Active
StillActive(tbl, id) ==
    /\ id \in DOMAIN tbl
    /\ tbl[id].order_status = OrderStatusActive

\* One tick over the nodes of slot idx, first to last.  acc collects the
\* nodes kept, the orders table and the Expired events published.
RECURSIVE WalkSlot(_, _, _)
WalkSlot(nodes, idx, acc) ==
    IF nodes = << >> THEN acc
    ELSE
      LET n    == Head(nodes)
          rest == Tail(nodes)
      IN  IF n.WheelPosition # idx
          THEN WalkSlot(rest, idx, [acc EXCEPT !.wheel = Append(@, n)])
          ELSE IF n.CycleCount > 0
          THEN WalkSlot(rest, idx,
                  [acc EXCEPT !.wheel = Append(@, [n EXCEPT !.CycleCount = @ - 1])])
          ELSE IF StillActive(acc.orders, n.order_id)
          THEN WalkSlot(rest, idx,
                  [acc EXCEPT
                     !.orders[n.order_id].order_status = OrderStatusExpired,
                     !.events = Append(@, TradeEvent("Expired", n.order_id,
                                   n.collection_address, n.token_id, "", "", 0))])
          ELSE WalkSlot(rest, idx, acc)

\* A price heap is kept as the sequence of its entries by ascending price.
RECURSIVE InsertByPrice(_, _)
InsertByPrice(h, e) ==
    IF h = << >> THEN << e >>
    ELSE IF e.price < Head(h).price THEN << e >> \o h
    ELSE << Head(h) >> \o InsertByPrice(Tail(h), e)

\* GetMin reading the other end of the heap
GetMinFromTail(h) == IF h = << >> THEN 0 ELSE h[Len(h)].price

\* GetMin(): the price at the top of the heap, zero for an empty heap
GetMin(h) == IF h = << >> THEN 0 ELSE h[1].price

\* a maximum read at the top of the heap
GetMaxFromHead(h) == IF h = << >> THEN 0 ELSE h[1].price

\* the highest price held, the one a push beyond the capacity pops
GetMax(h) == IF h = << >> THEN 0 ELSE h[Len(h)].price

\* a push that never pops the maximum
AddUnbounded(h, e) == InsertByPrice(h, e)

\* Listing: push when the heap is not full or the price is below the maximum;
\* pop the maximum when the push makes the heap exceed its capacity
Add(h, e) ==
    IF Len(h) < HeapCap \/ e.price < GetMax(h)
    THEN LET h1 == InsertByPrice(h, e)
         IN  IF Len(h1) > HeapCap THEN SubSeq(h1, 1, Len(h1) - 1) ELSE h1
    ELSE h

\* a removal that leaves the heap as it is
RemoveNothing(h, id) == h

\* Cancel / Expired: remove the entry with the order id, if present
RECURSIVE Remove(_, _)
Remove(h, id) ==
    IF h = << >> THEN h
    ELSE IF Head(h).order_id = id THEN Tail(h)
    ELSE << Head(h) >> \o Remove(Tail(h), id)

\* Buy: remove any entry with the order id, then the seller's entries for
\* the token sold
RemoveSold(h, ev) ==
    LET NotSold(e) == e.order_id # ev.order_id
        NotSellers(e) == ~(e.maker = ev.from /\ e.token_id = ev.token_id)
    IN  SelectSeq(SelectSeq(h, NotSold), NotSellers)

HeapEntry(row) == [order_id |-> row.order_id, price |-> row.price,
                   maker |-> row.maker, token_id |-> row.token_id]

\* the Active, unexpired listings of a collection in the orders table
LiveListings(tbl, c, t) ==
    {id \in DOMAIN tbl :
        /\ tbl[id].collection_address = c
        /\ tbl[id].order_type = ListingOrder
        /\ tbl[id].order_status = OrderStatusActive
        /\ (tbl[id].expire_time = 0 \/ tbl[id].expire_time > t)}

\* ... of which the maker is the current owner of the item (the join of the
\* orders and items tables compares addresses without regard to case)
OwnedListings(tbl, itm, c, t) ==
    {id \in LiveListings(tbl, c, t) :
        /\ << c, tbl[id].token_id >> \in DOMAIN itm
        /\ ToLower(tbl[id].maker) = ToLower(itm[<< c, tbl[id].token_id >>])}

\* ORDER BY price ASC over a set of order ids
RECURSIVE LowestFirst(_, _)
LowestFirst(tbl, ids) ==
    IF ids = {} THEN << >>
    ELSE LET m == CHOOSE x \in ids : \A y \in ids : tbl[x].price <= tbl[y].price
         IN  << HeapEntry(tbl[m]) >> \o LowestFirst(tbl, ids \ {m})

\* a reload that brings nothing back
reloadNothing(tbl, itm, c, t) == << >>

\* reloadCollectionOrders: the lowest listings of the collection, at most
\* as many as a heap holds
reloadCollectionOrders(tbl, itm, c, t) ==
    LET all == LowestFirst(tbl, OwnedListings(tbl, itm, c, t))
    IN  SubSeq(all, 1, IF Len(all) < HeapCap THEN Len(all) ELSE HeapCap)

RECURSIVE AddAll(_, _)
AddAll(h, es) == IF es = << >> THEN h ELSE AddAll(Add(h, Head(es)), Tail(es))

\* Buy: load the live listings of the buyer that the heap does not hold
LoadBuyerListings(h, tbl, c, t, buyer) ==
    LET held == {h[i].order_id : i \in DOMAIN h}
        ids  == {id \in LiveListings(tbl, c, t) :
                    ToLower(tbl[id].maker) = ToLower(buyer) /\ id \notin held}
    IN  AddAll(h, LowestFirst(tbl, ids))

\* the apply rule of the engine, by event type
ApplyEvent(h, ev, tbl, t) ==
    CASE ev.event_type = "Listing" ->
            Add(h, [order_id |-> ev.order_id, price |-> ev.price,
                    maker |-> ev.from, token_id |-> ev.token_id])
      [] ev.event_type = "Buy" ->
            LoadBuyerListings(RemoveSold(h, ev), tbl, ev.collection_addr, t, ev.to)
      [] ev.event_type \in {"Cancel", "Expired"} -> Remove(h, ev.order_id)
      [] OTHER -> h

\* Dao.QueryFloorPrice of the backend: the lowest price among the Active
\* listings of the collection whose maker owns the item, zero without one
QueryFloorPrice(tbl, itm, c) ==
    LET ids == {id \in DOMAIN tbl :
                  /\ tbl[id].collection_address = c
                  /\ tbl[id].order_type = ListingOrder
                  /\ tbl[id].order_status = OrderStatusActive
                  /\ << c, tbl[id].token_id >> \in DOMAIN itm
                  /\ ToLower(tbl[id].maker) = ToLower(itm[<< c, tbl[id].token_id >>])}
    IN  IF ids = {} THEN 0
        ELSE tbl[CHOOSE x \in ids : \A y \in ids : tbl[x].price <= tbl[y].price].price

\* a send that waits until the channel has room
SendWaitsForRoom(ch) == Len(ch) < ChanCap

\* the engine's send never waits: with a full channel it takes the default
\* branch at once
SendCompletes(ch) == TRUE

\* the engine's send on the signal channel: best effort, dropped when the
\* channel is full
Signal(ch, c) == IF Len(ch) < ChanCap THEN Append(ch, c) ELSE ch

\* SELECT COUNT(DISTINCT token_id) over the Active, unexpired listings of the
\* collection whose maker owns the item
ListedCount(tbl, itm, c, t) ==
    Cardinality({tbl[id].token_id : id \in OwnedListings(tbl, itm, c, t)})

OrderManagerInit ==
    /\ now = 0
    /\ CurrentIndex = 0
    /\ wheel = << >>
    /\ PriceQueueMap = [c \in Collections |-> << >>]
    /\ floor_price = [c \in Collections |-> 0]
    /\ floorCache = [c \in Collections |-> 0]
    /\ applied = NoEvent
    /\ reloadResult = "none"
    /\ collectionListedCh = << >>
    /\ pending = {}
    /\ listedCount = [c \in Collections |-> 0]

NoQuery == << >>
NoLog   == [kind |-> "None", tx |-> "", order |-> "", take |-> "", fillPrice |-> 0]

DBInit ==
    /\ orders      = << >>
    /\ items       = [k \in ItemKeys |->
                        IF k = <<"c1", 1>> THEN "0xaa" ELSE "0xbb"]
    /\ activities  = {}
    /\ ordersQueue = << >>
    /\ tradeEvents = << >>

\* the four goroutines of the order manager
OrderManagerLoops == {"ListenNewListingLoop", "orderExpiryProcess",
                      "floorPriceProcess", "listCountProcess"}

\* the long-lived loops the service starts beside the ingester
Loops == OrderManagerLoops \cup {"UpKeepingCollectionFloorChangeLoop"}

\* no call of the order book contract is part of the behaviour
NoSettlement == [reverted |-> TRUE, sender |-> "", buyOnBook |-> FALSE,
                 fillPrice |-> 0, buyPrice |-> 0, msgValue |-> 0,
                 ethIn |-> 0, ethOut |-> 0]

ContractOff ==
    /\ balance = 0
    /\ settlement = NoSettlement
    /\ nCalls = 0

DaemonOff ==
    /\ ContractOff
    /\ mainPc = "off"
    /\ svcPc = "off"
    /\ onSyncExit = << >>
    /\ PprofEnable = FALSE
    /\ loopPc = [l \in Loops |-> "off"]

SyncOff ==
    /\ DaemonOff
    /\ pc = "off"
    /\ lastSyncBlock = 0
    /\ last_indexed_block = 0
    /\ currentBlockNum = 0
    /\ query = NoQuery
    /\ logs = << >>
    /\ ctxDone = FALSE
    /\ restarts = 0
    /\ chainDiff = 0

ReplayOff ==
    /\ stream = << >>
    /\ prefixLen = 0
    /\ rp = 0

-----------------------------------------------------------------------------
(* SpecIngest: the three handlers applied to the logs of the chain in any   *)
(* order and with repetitions (at-least-once delivery).                     *)

IngestLogs ==
    { MakeLog("tx1", "L1"), MakeLog("tx2", "B1"), MakeLog("tx3", "B2"),
      CancelLog("tx4", "L1"), CancelLog("tx5", "B1"),
      MatchLog("tx6", "L1", "B1", 2),      \* L1 is the make order, B1 takes it
      MatchLog("tx7", "B1", "L1", 2),      \* B1 is the make order, L1 takes it
      MatchLog("tx8", "T1", "L1", 2),      \* a buyer takes L1, T1 not on the book
      MatchLog("tx9", "L1", "B2", 1) }

InitIngest ==
    /\ DBInit /\ SyncOff /\ ReplayOff /\ OrderManagerInit
    /\ nEvents = 0
    /\ lastLog = NoLog

Ingest(kind) ==
    /\ nEvents < MaxEvents
    /\ \E log \in IngestLogs :
         /\ log.kind = kind
         /\ \E F \in Faults(FaultSitesOf(log)) : SetDB(Dispatch(DB, log, F))
         /\ lastLog' = log
    /\ nEvents' = nEvents + 1
    /\ UNCHANGED << syncVars, replayVars, omVars >>

IngestMake   == Ingest("Make")
IngestCancel == Ingest("Cancel")
IngestMatch  == Ingest("Match")

NextIngest == IngestMake \/ IngestCancel \/ IngestMatch

SpecIngest == InitIngest /\ [][NextIngest]_vars

-----------------------------------------------------------------------------
(* SpecReplay: a log stream is handled with a prefix of it delivered twice  *)
(* (prefix, prefix again, then the rest), no call failing.                  *)

ReplayLogs ==
    { MakeLog("tx1", "L1"), MakeLog("tx2", "B1"),
      MatchLog("tx6", "L1", "B1", 2), CancelLog("tx5", "B1") }

\* the streams: sequences of distinct logs
Streams ==
    UNION { { st \in [1..n -> ReplayLogs] :
                \A i, j \in 1..n : i # j => st[i] # st[j] } : n \in 0..MaxStream }

InitialDB ==
    [orders |-> << >>,
     items |-> [k \in ItemKeys |-> IF k = <<"c1", 1>> THEN "0xaa" ELSE "0xbb"],
     activities |-> {}, ordersQueue |-> << >>, tradeEvents |-> << >>]

RECURSIVE ProcessOnce(_, _)
\* the state after handling the first n logs of st, each once
ProcessOnce(st, n) ==
    IF n = 0 THEN InitialDB ELSE Dispatch(ProcessOnce(st, n - 1), st[n], {})

InitReplay ==
    /\ DBInit /\ SyncOff /\ OrderManagerInit
    /\ nEvents = 0
    /\ lastLog = NoLog
    /\ stream \in Streams
    /\ prefixLen \in 0..Len(stream)
    /\ rp = 0

ReplayDone == rp = prefixLen + Len(stream)

ReplayStep ==
    /\ ~ReplayDone
    /\ LET log == IF rp < prefixLen THEN stream[rp + 1]
                  ELSE stream[rp - prefixLen + 1]
       IN  /\ SetDB(Dispatch(DB, log, {}))
           /\ lastLog' = log
    /\ rp' = rp + 1
    /\ UNCHANGED << nEvents, syncVars, stream, prefixLen, omVars >>

NextReplay == ReplayStep

SpecReplay == InitReplay /\ [][NextReplay]_vars

-----------------------------------------------------------------------------
(* SyncOrderBookEventLoop *)

\* the values of MultiChainMaxBlockDifference[s.chain]; a chain the map does
\* not name reads as 0
ChainDiffs == {0, 1, 2}

\* the chain: the logs of the order-book contract, per block
ChainLogs(b) ==
    CASE b = 1  -> << MakeLog("tx1", "L1"), MatchLog("tx8", "T1", "L1", 2) >>
      [] b = 12 -> << CancelLog("tx4", "L1") >>
      [] OTHER  -> << >>

RECURSIVE FilterLogs(_, _)
\* chainClient.FilterLogs: the logs of the blocks from..to, in order
FilterLogs(from, to) ==
    IF from > to \/ from > MaxHead THEN << >>
    ELSE ChainLogs(from) \o FilterLogs(from + 1, to)

\* line 149: no block beyond the cursor is confirmed yet
NoNewBlocksIgnoringDepth(last, head, diff) == last > head
NoNewBlocks(last, head, diff) == last > USub(head, diff)

\* lines 155-160
EndBlock(startBlock, head, diff) ==
    IF UAdd(startBlock, SyncBlockPeriod) > USub(head, diff)
    THEN USub(head, diff)
    ELSE UAdd(startBlock, SyncBlockPeriod)

InitSync ==
    /\ DBInit /\ ReplayOff /\ OrderManagerInit /\ DaemonOff
    /\ nEvents = 0
    /\ lastLog = NoLog
    /\ pc = "start"
    /\ lastSyncBlock = 0
    /\ last_indexed_block = 0
    /\ currentBlockNum = 0
    /\ query = NoQuery
    /\ logs = << >>
    /\ ctxDone = FALSE
    /\ restarts = 0
    /\ chainDiff \in ChainDiffs

\* lines 119-129: read indexed_status; a failed read ends the goroutine
LoadIndexedStatus ==
    /\ pc = "start"
    /\ \E ok \in BOOLEAN :
         IF ok THEN /\ lastSyncBlock' = last_indexed_block
                    /\ pc' = "loop"
               ELSE /\ pc' = "initFailed"
                    /\ UNCHANGED lastSyncBlock
    /\ UNCHANGED << omVars, dbVars, nEvents, lastLog, last_indexed_block, currentBlockNum,
                    query, logs, ctxDone, restarts, chainDiff, replayVars, daemonVars >>

\* a loop that never looks at its context
NeverCancelled(done) == FALSE

\* case <-s.ctx.Done() at the top of a loop: taken once the context is
\* cancelled
Cancelled(done) == done

\* lines 130-175: one pass from the top of the loop to the log filter
PollChain ==
    /\ pc = "loop"
    /\ Cancelled(ctxDone) \/ lastSyncBlock <= MaxHead + 1
    /\ IF Cancelled(ctxDone)
       THEN /\ pc' = "cancelled"
            /\ UNCHANGED << currentBlockNum, query, logs >>
       ELSE \/ \* BlockNumber() fails
               /\ pc' = "sleep"
               /\ UNCHANGED << currentBlockNum, query, logs >>
            \/ \E head \in 0..MaxHead :
                 /\ currentBlockNum' = head
                 /\ IF NoNewBlocks(lastSyncBlock, head, chainDiff)
                    THEN /\ pc' = "sleep"
                         /\ UNCHANGED << query, logs >>
                    ELSE LET startBlock == lastSyncBlock
                             endBlock   == EndBlock(startBlock, head, chainDiff)
                         IN  /\ query' = << startBlock, endBlock >>
                             /\ \/ \* FilterLogs fails
                                   /\ pc' = "sleep"
                                   /\ UNCHANGED logs
                                \/ /\ logs' = FilterLogs(startBlock, endBlock)
                                   /\ pc' = "dispatch"
    /\ UNCHANGED << omVars, dbVars, nEvents, lastLog, lastSyncBlock, last_indexed_block,
                    ctxDone, restarts, chainDiff, replayVars, daemonVars >>

\* time.Sleep(SleepInterval * time.Second), then continue: the locals of the
\* iteration (currentBlockNum, startBlock, endBlock) go out of scope
Wake ==
    /\ pc = "sleep"
    /\ pc' = "loop"
    /\ currentBlockNum' = 0
    /\ query' = NoQuery
    /\ UNCHANGED << omVars, dbVars, nEvents, lastLog, lastSyncBlock, last_indexed_block,
                    logs, ctxDone, restarts, chainDiff, replayVars, daemonVars >>

\* lines 178-191: the next log of the batch goes to its handler
DispatchLog ==
    /\ pc = "dispatch"
    /\ logs # << >>
    /\ \E F \in Faults(FaultSitesOf(Head(logs))) :
         SetDB(Dispatch(DB, Head(logs), F))
    /\ lastLog' = Head(logs)
    /\ logs' = Tail(logs)
    /\ UNCHANGED << omVars, nEvents, pc, lastSyncBlock, last_indexed_block, currentBlockNum,
                    query, ctxDone, restarts, chainDiff, replayVars, daemonVars >>

\* a cursor left on the last block of the batch
NextStartAtEnd(endBlock) == endBlock

\* line 193: lastSyncBlock = endBlock + 1
NextStart(endBlock) == UAdd(endBlock, 1)

\* lines 193-202: advance the cursor and persist it; a failed update ends the
\* goroutine
UpdateIndexedStatus ==
    /\ pc = "dispatch"
    /\ logs = << >>
    /\ lastSyncBlock' = NextStart(query[2])
    /\ \E ok \in BOOLEAN :
         IF ok THEN /\ last_indexed_block' = lastSyncBlock'
                    /\ pc' = "loop"
               ELSE /\ pc' = "updateFailed"
                    /\ UNCHANGED last_indexed_block
    /\ currentBlockNum' = 0
    /\ query' = NoQuery
    /\ UNCHANGED << omVars, dbVars, nEvents, lastLog, logs, ctxDone, restarts, chainDiff,
                    replayVars, daemonVars >>

\* the process dies at any point and is started again: the goroutine's locals
\* are lost, the database and the queues are kept
Restart ==
    /\ restarts < MaxRestarts
    /\ restarts' = restarts + 1
    /\ pc' = "start"
    /\ lastSyncBlock' = 0
    /\ currentBlockNum' = 0
    /\ query' = NoQuery
    /\ logs' = << >>
    /\ ctxDone' = FALSE
    /\ UNCHANGED << omVars, dbVars, nEvents, lastLog, last_indexed_block, chainDiff,
                    replayVars, daemonVars >>

\* SIGINT or SIGTERM: the daemon cancels the root context
CancelContext ==
    /\ ~ctxDone
    /\ pc \notin {"off"}
    /\ ctxDone' = TRUE
    /\ UNCHANGED << omVars, dbVars, nEvents, lastLog, pc, lastSyncBlock, last_indexed_block,
                    currentBlockNum, query, logs, restarts, chainDiff, replayVars, daemonVars >>

NextSync ==
    \/ LoadIndexedStatus
    \/ PollChain
    \/ Wake
    \/ DispatchLog
    \/ UpdateIndexedStatus
    \/ Restart
    \/ CancelContext

SpecSync == InitSync /\ [][NextSync]_vars

-----------------------------------------------------------------------------
(* Spec: the whole pipeline.  The ingester handles logs while the new-      *)
(* listing worker, the wheel ticker, the floor engine and the backend run   *)
(* beside it, in any interleaving.                                          *)

PipelineLogs ==
    { MakeLog("tx1", "L1"), MakeLog("tx10", "L2"), MakeLog("tx2", "B1"),
      CancelLog("tx4", "L1"),
      MatchLog("tx6", "L1", "B1", 2),      \* L1 is the make order, B1 takes it
      MatchLog("tx8", "T1", "L1", 2) }     \* a buyer takes L1, T1 not on the book

Init ==
    /\ DBInit /\ SyncOff /\ ReplayOff /\ OrderManagerInit
    /\ nEvents = 0
    /\ lastLog = NoLog

\* the ingester handles one log, all calls of the handler succeeding (the
\* failing calls are the subject of SpecIngest)
HandleLog(kind) ==
    /\ nEvents < MaxPipelineEvents
    /\ \E log \in PipelineLogs :
         /\ log.kind = kind
         /\ SetDB(Dispatch(DB, log, {}))
    /\ nEvents' = nEvents + 1
    /\ UNCHANGED << lastLog, syncVars, replayVars, omVars >>

HandleMake   == HandleLog("Make")
HandleCancel == HandleLog("Cancel")
HandleMatch  == HandleLog("Match")

\* the new-listing worker pops one order of the listings queue
\* a test that takes expire_time = 0 for a time in the past
PastExpireTime(o, t) == o.expire_time <= t

\* the worker's test of a popped order: it has an expiry and that is reached
AlreadyExpired(o, t) == o.expire_time # 0 /\ o.expire_time <= t

ListenNewListingLoop ==
    /\ ordersQueue # << >>
    /\ LET o == Head(ordersQueue)
       IN  IF AlreadyExpired(o, now)
           THEN /\ orders' = UpdateOrder(DB, o.order_id,
                                [order_status |-> OrderStatusExpired]).orders
                /\ tradeEvents' = Append(tradeEvents,
                      TradeEvent("Expired", o.order_id, o.collection_address,
                                 o.token_id, "", "", 0))
                /\ UNCHANGED wheel
           ELSE /\ tradeEvents' = Append(tradeEvents,
                      TradeEvent("Listing", o.order_id, o.collection_address,
                                 o.token_id, o.maker, "", o.price))
                /\ wheel' = addToOrderExpiryCheckQueue(wheel, CurrentIndex, now, o)
                /\ UNCHANGED orders
    /\ ordersQueue' = Tail(ordersQueue)
    /\ UNCHANGED << items, activities, nEvents, lastLog, syncVars, replayVars,
                    now, CurrentIndex, PriceQueueMap, floor_price, floorCache,
                    applied, reloadResult, aggVars >>

\* one tick of the wheel, one second after the previous one
Tick ==
    /\ LET r == WalkSlot(wheel, CurrentIndex,
                         [wheel |-> << >>, orders |-> orders, events |-> << >>])
       IN  /\ wheel' = r.wheel
           /\ orders' = r.orders
           /\ tradeEvents' = tradeEvents \o r.events
    /\ CurrentIndex' = (CurrentIndex + 1) % WheelSize
    /\ now' = now + 1
    /\ UNCHANGED << items, activities, ordersQueue, nEvents, lastLog, syncVars,
                    replayVars, PriceQueueMap, floor_price, floorCache, applied,
                    reloadResult, aggVars >>

orderExpiryProcess ==
    /\ now < MaxNow
    /\ Tick

\* a pop at the end the producers push to
NewestEvent(q) == q[Len(q)]

\* the blocking pop of the trade-event queue: the oldest event
NextEvent(q) == Head(q)

\* the floor engine pops and applies one trade event; the reload of an
\* emptied heap may fail, which leaves the heap empty; the engine then
\* signals the aggregator without waiting for it
floorPriceProcess ==
    /\ tradeEvents # << >>
    /\ SendCompletes(collectionListedCh)
    /\ \E reloadOk \in BOOLEAN :
         LET ev == NextEvent(tradeEvents)
             c  == ev.collection_addr
             h1 == ApplyEvent(PriceQueueMap[c], ev, orders, now)
             h2 == IF h1 = << >> /\ reloadOk
                   THEN reloadCollectionOrders(orders, items, c, now)
                   ELSE h1
             newFloor == GetMin(h2)
         IN  /\ PriceQueueMap' = [PriceQueueMap EXCEPT ![c] = h2]
             /\ IF newFloor # floor_price[c] \/ newFloor # floorCache[c]
                THEN /\ floor_price' = [floor_price EXCEPT ![c] = newFloor]
                     /\ floorCache' = [floorCache EXCEPT ![c] = newFloor]
                ELSE UNCHANGED << floor_price, floorCache >>
             /\ applied' = ev
             /\ reloadResult' = IF h1 # << >> THEN "none"
                                ELSE IF reloadOk THEN "ok" ELSE "failed"
             /\ collectionListedCh' = Signal(collectionListedCh, c)
    /\ tradeEvents' = Tail(tradeEvents)
    /\ UNCHANGED << orders, items, activities, ordersQueue, nEvents, lastLog,
                    syncVars, replayVars, now, CurrentIndex, wheel, pending,
                    listedCount >>

\* the aggregator receives one collection address of the signal channel
listCountReceive ==
    /\ collectionListedCh # << >>
    /\ pending' = pending \cup {Head(collectionListedCh)}
    /\ collectionListedCh' = Tail(collectionListedCh)
    /\ UNCHANGED << dbVars, nEvents, lastLog, syncVars, replayVars, now,
                    CurrentIndex, wheel, PriceQueueMap, floor_price, floorCache,
                    applied, reloadResult, listedCount >>

\* a batch read from pending after it was reset
BatchAfterReset(p) == {}

\* the batch the swap hands to the tick: the set pending held under the mutex
DrainedBatch(p) == p

\* the 60 s ticker of the aggregator: pending is swapped with the empty set
\* and every collection of the drained batch is counted and cached
listCountTick ==
    /\ listedCount' = [c \in Collections |->
                          IF c \in DrainedBatch(pending)
                          THEN ListedCount(orders, items, c, now)
                          ELSE listedCount[c]]
    /\ pending' = {}
    /\ UNCHANGED << dbVars, nEvents, lastLog, syncVars, replayVars, now,
                    CurrentIndex, wheel, PriceQueueMap, floor_price, floorCache,
                    applied, reloadResult, collectionListedCh >>

\* the backend serves a collection's detail page and finds the floor of the
\* orders table different from the stored one
GetCollectionDetail ==
    /\ Len(tradeEvents) < MaxQueue
    /\ \E c \in Collections :
         LET floorPrice == QueryFloorPrice(orders, items, c)
         IN  /\ floorPrice # floor_price[c]
             /\ tradeEvents' = Append(tradeEvents,
                   TradeEvent("UpdateCollection", "", c, 0, "", "", floorPrice))
    /\ UNCHANGED << orders, items, activities, ordersQueue, nEvents, lastLog,
                    syncVars, replayVars, omVars >>

Next ==
    \/ HandleMake \/ HandleCancel \/ HandleMatch
    \/ ListenNewListingLoop
    \/ orderExpiryProcess
    \/ floorPriceProcess
    \/ GetCollectionDetail

Spec == Init /\ [][Next]_vars

-----------------------------------------------------------------------------
(* SpecWheel: the worker and the time wheel alone, for one listing whose    *)
(* expire_time, insert time and slot at insert time are drawn from the      *)
(* cases below, equal to and above one turn of the wheel.                   *)

ExpireTimes == {0} \cup (1 .. MaxInsertNow + 1)
                   \cup {WheelSize + k : k \in 0 .. MaxInsertNow + 1}

StartIndexes == {0, WheelSize - 1}

InitWheel ==
    /\ SyncOff /\ ReplayOff
    /\ nEvents = 0
    /\ lastLog = NoLog
    /\ now = 0
    /\ CurrentIndex \in StartIndexes
    /\ wheel = << >>
    /\ PriceQueueMap = [c \in Collections |-> << >>]
    /\ floor_price = [c \in Collections |-> 0]
    /\ floorCache = [c \in Collections |-> 0]
    /\ applied = NoEvent
    /\ reloadResult = "none"
    /\ collectionListedCh = << >>
    /\ pending = {}
    /\ listedCount = [c \in Collections |-> 0]
    /\ items = [k \in ItemKeys |-> IF k = <<"c1", 1>> THEN "0xaa" ELSE "0xbb"]
    /\ activities = {}
    /\ tradeEvents = << >>
    /\ \E e \in ExpireTimes :
         LET row == [NewOrder("L1") EXCEPT !.expire_time = e]
         IN  /\ orders = ("L1" :> row)
             /\ ordersQueue = << [expire_time |-> e, order_id |-> "L1",
                                  collection_address |-> row.collection_address,
                                  token_id |-> row.token_id, price |-> row.price,
                                  maker |-> row.maker] >>

\* the ticker of the wheel; the worker pops the order at one of the first
\* seconds
WheelTick ==
    /\ ordersQueue = << >> \/ now < MaxInsertNow
    /\ now < MaxWheelNow
    /\ Tick

NextWheel == ListenNewListingLoop \/ WheelTick

SpecWheel == InitWheel /\ [][NextWheel]_vars

-----------------------------------------------------------------------------
(* SpecRace: the worker and the wheel task as two tasks.  A tick is the     *)
(* walk of the slot at CurrentIndex followed by the advance of the index;   *)
(* the worker, which builds a node from the shared index, may come before   *)
(* a tick, after it, or between its walk and its advance.                   *)

\* the worker builds and prepends its node after the wheel task has walked
\* the slot at CurrentIndex and before it advances the index
InsertDuringTick ==
    /\ ordersQueue # << >>
    /\ now < MaxInsertNow
    /\ ~AlreadyExpired(Head(ordersQueue), now)
    /\ LET o == Head(ordersQueue)
           r == WalkSlot(wheel, CurrentIndex,
                         [wheel |-> << >>, orders |-> orders, events |-> << >>])
       IN  /\ wheel' = addToOrderExpiryCheckQueue(r.wheel, CurrentIndex, now, o)
           /\ orders' = r.orders
           /\ tradeEvents' = Append(tradeEvents \o r.events,
                 TradeEvent("Listing", o.order_id, o.collection_address,
                            o.token_id, o.maker, "", o.price))
    /\ ordersQueue' = Tail(ordersQueue)
    /\ CurrentIndex' = (CurrentIndex + 1) % WheelSize
    /\ now' = now + 1
    /\ UNCHANGED << items, activities, nEvents, lastLog, syncVars, replayVars,
                    PriceQueueMap, floor_price, floorCache, applied,
                    reloadResult, aggVars >>

NextRace == ListenNewListingLoop \/ WheelTick \/ InsertDuringTick

SpecRace == InitWheel /\ [][NextRace]_vars

-----------------------------------------------------------------------------
(* SpecLive: the whole service under fair scheduling.  The logs of a stream *)
(* are handled once each and in order, a call of a handler may fail, and    *)
(* the worker, the wheel, the floor engine and the aggregator run as the    *)
(* goroutines the service starts: each keeps taking steps.                  *)

LiveStreams ==
    { << MakeLog("tx1", "L1") >>,
      << MakeLog("tx10", "L2"), MakeLog("tx1", "L1") >>,
      << MakeLog("tx1", "L1"), CancelLog("tx4", "L1") >>,
      << MakeLog("tx1", "L1"), MatchLog("tx8", "T1", "L1", 2) >> }

InitLive ==
    /\ DBInit /\ SyncOff /\ OrderManagerInit
    /\ nEvents = 0
    /\ lastLog = NoLog
    /\ stream \in LiveStreams
    /\ prefixLen = 0
    /\ rp = 0

\* the ingester dispatches the next log of the stream
Deliver ==
    /\ rp < Len(stream)
    /\ \E F \in Faults(FaultSitesOf(stream[rp + 1])) :
         SetDB(Dispatch(DB, stream[rp + 1], F))
    /\ rp' = rp + 1
    /\ UNCHANGED << stream, prefixLen, nEvents, lastLog, syncVars, omVars >>

NextLive ==
    \/ Deliver
    \/ ListenNewListingLoop
    \/ orderExpiryProcess
    \/ floorPriceProcess
    \/ listCountReceive
    \/ listCountTick

SpecLive ==
    /\ InitLive /\ [][NextLive]_vars
    /\ WF_vars(Deliver)
    /\ WF_vars(ListenNewListingLoop)
    /\ WF_vars(orderExpiryProcess)
    /\ WF_vars(floorPriceProcess)
    /\ WF_vars(listCountReceive)
    /\ WF_vars(listCountTick)

-----------------------------------------------------------------------------
(* SpecDaemon: the daemon command.  Run starts the service goroutine and    *)
(* waits for a signal or a startup error; the service goroutine sets the    *)
(* service up and starts the ingester and the other long-lived loops, each  *)
(* in a goroutine of its own.  Every goroutine keeps taking steps; a signal *)
(* may come at any time or never.                                           *)

StartupStages == << "config", "logger", "new", "start" >>

\* the stage after stage st of the service goroutine
StageAfter(st) ==
    CHOOSE nx \in {"logger", "new", "start"} :
        \E i \in 1 .. 3 : StartupStages[i] = st /\ StartupStages[i + 1] = nx

InitDaemon ==
    /\ DBInit /\ ReplayOff /\ OrderManagerInit /\ ContractOff
    /\ nEvents = 0
    /\ lastLog = NoLog
    /\ pc = "off"
    /\ lastSyncBlock = 0
    /\ last_indexed_block = 12      \* the cursor an earlier run persisted
    /\ currentBlockNum = 0
    /\ query = NoQuery
    /\ logs = << >>
    /\ ctxDone = FALSE
    /\ restarts = 0
    /\ chainDiff = 0
    /\ mainPc = "select"
    /\ svcPc = "config"
    /\ onSyncExit = << >>
    /\ PprofEnable \in BOOLEAN
    /\ loopPc = [l \in Loops |-> "off"]

\* daemon.go 44-69: UnmarshalCmdConfig, xzap.SetUp, service.New; an error is
\* sent on onSyncExit and the goroutine returns, which runs wg.Done()
ServiceSetUp ==
    /\ svcPc \in {"config", "logger", "new"}
    /\ \E ok \in BOOLEAN :
         IF ok THEN /\ svcPc' = StageAfter(svcPc)
                    /\ UNCHANGED onSyncExit
               ELSE /\ svcPc' = "done"
                    /\ onSyncExit' = Append(onSyncExit, "err")
    /\ UNCHANGED << dbVars, nEvents, lastLog, pc, lastSyncBlock, last_indexed_block,
                    currentBlockNum, query, logs, ctxDone, restarts, chainDiff,
                    replayVars, omVars, contractVars,
                    mainPc, PprofEnable, loopPc >>

\* daemon.go 73-82 with Service.Start: PreloadCollections may fail; else the
\* loops are started in goroutines, and the service goroutine returns unless
\* pprof is enabled
ServiceStart ==
    /\ svcPc = "start"
    /\ \E ok \in BOOLEAN :
         IF ok THEN /\ pc' = "start"
                    /\ loopPc' = [l \in Loops |->
                         IF l = "UpKeepingCollectionFloorChangeLoop"
                         THEN "start" ELSE "running"]
                    /\ svcPc' = IF PprofEnable THEN "pprof" ELSE "done"
                    /\ UNCHANGED onSyncExit
               ELSE /\ svcPc' = "done"
                    /\ onSyncExit' = Append(onSyncExit, "err")
                    /\ UNCHANGED << pc, loopPc >>
    /\ UNCHANGED << dbVars, nEvents, lastLog, lastSyncBlock, last_indexed_block,
                    currentBlockNum, query, logs, ctxDone, restarts, chainDiff,
                    replayVars, omVars, contractVars,
                    mainPc, PprofEnable >>

\* daemon.go 80-82: http.ListenAndServe returns at once with an error (the
\* port is taken) or serves for as long as the process lives; it is not
\* given the context
ListenAndServe ==
    /\ svcPc = "pprof"
    /\ \E bound \in BOOLEAN : svcPc' = IF bound THEN "serving" ELSE "done"
    /\ UNCHANGED << dbVars, nEvents, lastLog, pc, lastSyncBlock, last_indexed_block,
                    currentBlockNum, query, logs, ctxDone, restarts, chainDiff,
                    replayVars, omVars, contractVars,
                    mainPc, onSyncExit, PprofEnable, loopPc >>

\* daemon.go 90-95: SIGINT or SIGTERM arrives while Run waits in its select
ExitBySignal ==
    /\ mainPc = "select"
    /\ ctxDone' = TRUE
    /\ mainPc' = "wait"
    /\ UNCHANGED << dbVars, nEvents, lastLog, pc, lastSyncBlock, last_indexed_block,
                    currentBlockNum, query, logs, restarts, chainDiff,
                    replayVars, omVars, contractVars,
                    svcPc, onSyncExit, PprofEnable, loopPc >>

\* daemon.go 96-99: Run receives the error of the service goroutine
ExitByError ==
    /\ mainPc = "select"
    /\ onSyncExit # << >>
    /\ onSyncExit' = Tail(onSyncExit)
    /\ ctxDone' = TRUE
    /\ mainPc' = "wait"
    /\ UNCHANGED << dbVars, nEvents, lastLog, pc, lastSyncBlock, last_indexed_block,
                    currentBlockNum, query, logs, restarts, chainDiff,
                    replayVars, omVars, contractVars,
                    svcPc, PprofEnable, loopPc >>

\* daemon.go 103: wg.Wait() returns once the service goroutine has returned
WgWait ==
    /\ mainPc = "wait"
    /\ svcPc = "done"
    /\ mainPc' = "returned"
    /\ UNCHANGED << dbVars, nEvents, lastLog, pc, lastSyncBlock, last_indexed_block,
                    currentBlockNum, query, logs, ctxDone, restarts, chainDiff,
                    replayVars, omVars, contractVars,
                    svcPc, onSyncExit, PprofEnable, loopPc >>

\* part_001 616-625: the floor-change loop reads its indexed_status row; a
\* failed read ends the goroutine
LoadFloorChangeStatus ==
    /\ loopPc["UpKeepingCollectionFloorChangeLoop"] = "start"
    /\ \E ok \in BOOLEAN :
         loopPc' = [loopPc EXCEPT !["UpKeepingCollectionFloorChangeLoop"] =
                       IF ok THEN "running" ELSE "initFailed"]
    /\ UNCHANGED << dbVars, nEvents, lastLog, pc, lastSyncBlock, last_indexed_block,
                    currentBlockNum, query, logs, ctxDone, restarts, chainDiff,
                    replayVars, omVars, contractVars,
                    mainPc, svcPc, onSyncExit, PprofEnable >>

\* part_001 627-631: the select of the floor-change loop takes the case of
\* the cancelled context and the loop returns
FloorChangeLoopReturns ==
    /\ loopPc["UpKeepingCollectionFloorChangeLoop"] = "running"
    /\ Cancelled(ctxDone)
    /\ loopPc' = [loopPc EXCEPT !["UpKeepingCollectionFloorChangeLoop"] = "returned"]
    /\ UNCHANGED << dbVars, nEvents, lastLog, pc, lastSyncBlock, last_indexed_block,
                    currentBlockNum, query, logs, ctxDone, restarts, chainDiff,
                    replayVars, omVars, contractVars,
                    mainPc, svcPc, onSyncExit, PprofEnable >>

\* a loop of the order manager comes to its next boundary (queue pop, tick,
\* receive), finds the context cancelled and returns
LoopReturns(l) ==
    /\ loopPc[l] = "running"
    /\ Cancelled(ctxDone)
    /\ loopPc' = [loopPc EXCEPT ![l] = "returned"]
    /\ UNCHANGED << dbVars, nEvents, lastLog, pc, lastSyncBlock, last_indexed_block,
                    currentBlockNum, query, logs, ctxDone, restarts, chainDiff,
                    replayVars, omVars, contractVars,
                    mainPc, svcPc, onSyncExit, PprofEnable >>

OrderManagerLoopsReturn == \E l \in OrderManagerLoops : LoopReturns(l)

NextDaemon ==
    \/ ServiceSetUp
    \/ ServiceStart
    \/ ListenAndServe
    \/ ExitBySignal
    \/ ExitByError
    \/ WgWait
    \/ LoadIndexedStatus
    \/ PollChain
    \/ Wake
    \/ DispatchLog
    \/ UpdateIndexedStatus
    \/ LoadFloorChangeStatus
    \/ FloorChangeLoopReturns
    \/ OrderManagerLoopsReturn

\* every goroutine is scheduled again and again; the signal is the
\* environment's and may never come
SpecDaemon ==
    /\ InitDaemon /\ [][NextDaemon]_vars
    /\ WF_vars(ServiceSetUp) /\ WF_vars(ServiceStart) /\ WF_vars(ListenAndServe)
    /\ WF_vars(ExitByError) /\ WF_vars(WgWait)
    /\ WF_vars(LoadIndexedStatus) /\ WF_vars(PollChain) /\ WF_vars(Wake)
    /\ WF_vars(DispatchLog) /\ WF_vars(UpdateIndexedStatus)
    /\ WF_vars(LoadFloorChangeStatus) /\ WF_vars(FloorChangeLoopReturns)
    /\ \A l \in OrderManagerLoops : WF_vars(LoopReturns(l))

-----------------------------------------------------------------------------
(* Properties of the ingester's handlers *)

\* C1: Cancelled is absorbing: once an order's status is Cancelled no later
\* operation (a Match naming it, a duplicate Make, another Cancel, the
\* worker's immediate-expiry path, a wheel tick) changes any field of its row.
C1_CancelledIsAbsorbing ==
    [][ \A id \in DOMAIN orders :
          orders[id].order_status = OrderStatusCancelled
          => orders'[id] = orders[id] ]_vars

\* C2: after any sequence of Make, Match and Cancel events every order row has
\* 0 <= quantity_remaining <= size, and a Filled order has quantity_remaining 0.
C2_QuantityWithinSize ==
    \A id \in DOMAIN orders :
        /\ 0 <= orders[id].quantity_remaining
        /\ orders[id].quantity_remaining <= orders[id].size
        /\ orders[id].order_status = OrderStatusFilled
              => orders[id].quantity_remaining = 0

\* C3: handling a Cancel event for an order that is already Filled or Cancelled
\* changes no field of that order's row.
C3_CancelOfTerminalOrderChangesNothing ==
    [][ \A id \in DOMAIN orders :
          ( /\ lastLog'.kind = "Cancel"
            /\ lastLog'.order = id
            /\ orders[id].order_status \in {OrderStatusFilled, OrderStatusCancelled} )
          => orders'[id] = orders[id] ]_vars

\* C4: handling a prefix of the stream twice and then the rest leaves the same
\* orders, items and activities as handling the stream once.
C4_ReplayIsIdempotent ==
    ReplayDone =>
        LET once == ProcessOnce(stream, Len(stream))
        IN  /\ orders = once.orders
            /\ items = once.items
            /\ activities = once.activities

-----------------------------------------------------------------------------
(* Properties of SyncOrderBookEventLoop *)

\* C5: the persisted cursor is beyond a block only if every Make log of that
\* block has left its order row, its activity row and its entry on the
\* listings queue (a failed handler keeps the cursor back).
C5_CursorOnlyAfterPersisted ==
    \A b \in 0..MaxHead :
        b < last_indexed_block =>
            \A i \in DOMAIN ChainLogs(b) :
                LET log == ChainLogs(b)[i]
                IN  log.kind = "Make" =>
                      /\ log.order \in DOMAIN orders
                      /\ \E a \in activities : a.tx = log.tx
                      /\ \E j \in DOMAIN ordersQueue :
                            ordersQueue[j].order_id = log.order

\* C6: last_indexed_block never decreases, over every run of the loop and
\* across every restart.
C6_CursorNeverDecreases ==
    [][ last_indexed_block' >= last_indexed_block ]_vars

\* a cursor persisted by a process that was restarted and has caught up with it
C6_Witness ==
    /\ restarts > 0
    /\ pc = "loop"
    /\ last_indexed_block > SyncBlockPeriod
    /\ lastSyncBlock = last_indexed_block

\* C7: every requested range is [lastSynced, min(head - confirmDepth,
\* lastSynced + 10)] and holds no block above head - confirmDepth.
C7_RangeStaysBelowConfirmedHead ==
    query # NoQuery =>
        LET confirmed == currentBlockNum - chainDiff
            farthest  == query[1] + SyncBlockPeriod
        IN  /\ query[2] = IF confirmed <= farthest THEN confirmed ELSE farthest
            /\ query[2] <= confirmed

\* C8: no RPC or DB error makes the loop stop polling while the root context
\* is not cancelled.
C8_ErrorNeverStopsTheLoop ==
    pc = "updateFailed" => ctxDone

-----------------------------------------------------------------------------
(* Properties of the order manager *)

\* C9: whenever the listings queue and the trade-event queue are drained (the
\* engine applies an event in one step, so it is idle in every state) every
\* entry of every price heap refers to an Active listing of the orders table.
C9_HeapHoldsOnlyActiveListings ==
    (ordersQueue = << >> /\ tradeEvents = << >>) =>
        \A c \in Collections : \A i \in DOMAIN PriceQueueMap[c] :
            LET id == PriceQueueMap[c][i].order_id
            IN  /\ id \in DOMAIN orders
                /\ orders[id].order_type = ListingOrder
                /\ orders[id].order_status = OrderStatusActive

\* C10: after the engine has applied a trade event for a collection, the
\* floor_price column and the cached floor of the collection are equal, and
\* equal to the lowest price in its heap, or 0 when the heap is empty.
C10_FloorIsHeapMinimum ==
    applied # NoEvent =>
        LET c == applied.collection_addr
            h == PriceQueueMap[c]
        IN  /\ floor_price[c] = floorCache[c]
            /\ IF h = << >> THEN floor_price[c] = 0
               ELSE /\ \E i \in DOMAIN h : h[i].price = floor_price[c]
                    /\ \A i \in DOMAIN h : floor_price[c] <= h[i].price

\* a Listing below the floor has been applied to a heap that held a dearer
\* entry: the heap holds both and the floor is the new price
C10_Witness ==
    /\ applied.event_type = "Listing"
    /\ Len(PriceQueueMap[applied.collection_addr]) = 2
    /\ PriceQueueMap[applied.collection_addr][1].order_id = applied.order_id
    /\ PriceQueueMap[applied.collection_addr][2].price > applied.price
    /\ floor_price[applied.collection_addr] = applied.price
    /\ floorCache[applied.collection_addr] = applied.price

\* C11: an order whose expire_time is 0 never becomes Expired, and no Expired
\* trade event is ever published for it, whatever the worker routes and the
\* wheel ticks.
C11_NeverExpiringOrderIsNeverExpired ==
    \A id \in DOMAIN orders :
        orders[id].expire_time = 0 =>
            /\ orders[id].order_status # OrderStatusExpired
            /\ \A i \in DOMAIN tradeEvents :
                 ~(tradeEvents[i].event_type = "Expired"
                   /\ tradeEvents[i].order_id = id)
            /\ ~(applied.event_type = "Expired" /\ applied.order_id = id)

\* C13: a tick of the wheel leaves every order that is not Active (Filled,
\* Cancelled, Expired) exactly as it was and publishes no Expired event for
\* it, also when that order's node fires in the tick; only an order Active at
\* fire time becomes Expired.
C13_FiredNodeOfInactiveOrderIsNoOp ==
    [][ now' = now + 1 =>
          \A id \in DOMAIN orders :
              orders[id].order_status # OrderStatusActive =>
                  /\ orders'[id] = orders[id]
                  /\ \A i \in DOMAIN tradeEvents' :
                       i > Len(tradeEvents) =>
                           ~(tradeEvents'[i].event_type = "Expired"
                             /\ tradeEvents'[i].order_id = id) ]_vars

\* the node of L1 has fired (inserted at now = 0 for expire_time 1, gone
\* after the second tick) while L1 was Cancelled or Filled: its Listing event
\* is still queued and no Expired event follows it
C13_Witness ==
    /\ now = 2
    /\ "L1" \in DOMAIN orders
    /\ orders["L1"].order_status \in {OrderStatusCancelled, OrderStatusFilled}
    /\ \A i \in DOMAIN wheel : wheel[i].order_id # "L1"
    /\ \E i \in DOMAIN tradeEvents :
         tradeEvents[i].event_type = "Listing" /\ tradeEvents[i].order_id = "L1"
    /\ \A i \in DOMAIN tradeEvents :
         ~(tradeEvents[i].event_type = "Expired" /\ tradeEvents[i].order_id = "L1")

\* C14: a Match between a listing S and a bid B that are both in the orders
\* table, all calls succeeding: S is Filled with quantity_remaining 0 and
\* taker = buyer; B loses exactly one unit and keeps its status while more
\* than one unit remained, else B is Filled with quantity_remaining 0; the
\* item's owner is the lower-cased buyer; the Sale activity of the log is
\* present (one row more when the log was not handled before); one Buy event
\* with order_id = S is pushed.  Orders, items and the trade queue come out
\* the same whichever of S and B is the make order.
C14_MatchFillsListingAndDecrementsBid ==
    \A log \in { l \in IngestLogs : l.kind = "Match" } :
      LET listingMade == ChainOrder(log.order).side = List
          S  == IF listingMade THEN log.order ELSE log.take
          B  == IF listingMade THEN log.take ELSE log.order
          buyer == ChainOrder(B).maker
          r  == handleMatchEvent(DB, log, {})
          rs == handleMatchEvent(DB, MatchLog(log.tx, log.take, log.order,
                                              log.fillPrice), {})
          key == << ChainOrder(S).collection, ChainOrder(S).tokenId >>
      IN  (S \in DOMAIN orders /\ B \in DOMAIN orders) =>
            /\ r.orders[S] = [orders[S] EXCEPT
                                !.order_status = OrderStatusFilled,
                                !.quantity_remaining = 0,
                                !.taker = buyer]
            /\ IF orders[B].quantity_remaining > 1
               THEN r.orders[B] = [orders[B] EXCEPT
                                     !.quantity_remaining = @ - 1]
               ELSE r.orders[B] = [orders[B] EXCEPT
                                     !.order_status = OrderStatusFilled,
                                     !.quantity_remaining = 0]
            /\ \A id \in DOMAIN orders \ {S, B} : r.orders[id] = orders[id]
            /\ DOMAIN r.orders = DOMAIN orders
            /\ r.items[key] \in {"0xaa", "0xbb", "0xcc", "0xdd"}
            /\ r.items[key] = ToLower(buyer)
            /\ \E a \in r.activities :
                 a.tx = log.tx /\ (a \notin activities => a.activity_type = "Sale")
            /\ Cardinality(r.activities) =
                 Cardinality(activities)
                   + (IF \E a \in activities : a.tx = log.tx THEN 0 ELSE 1)
            /\ Len(r.tradeEvents) = Len(tradeEvents) + 1
            /\ SubSeq(r.tradeEvents, 1, Len(tradeEvents)) = tradeEvents
            /\ r.tradeEvents[Len(r.tradeEvents)].event_type = "Buy"
            /\ r.tradeEvents[Len(r.tradeEvents)].order_id = S
            /\ rs.orders = r.orders
            /\ rs.items = r.items
            /\ rs.tradeEvents = r.tradeEvents

\* Match(L1, B1) has been handled with B1 holding two units: L1 is Filled
\* and taken by the bidder, B1 is Active with one unit left, the item belongs
\* to the bidder, the Sale row and the Buy event are there
C14_Witness ==
    /\ lastLog.kind = "Match" /\ lastLog.tx \in {"tx6", "tx7"}
    /\ "L1" \in DOMAIN orders /\ "B1" \in DOMAIN orders
    /\ orders["L1"].order_status = OrderStatusFilled
    /\ orders["L1"].quantity_remaining = 0
    /\ orders["L1"].taker = "0xCc"
    /\ orders["B1"].order_status = OrderStatusActive
    /\ orders["B1"].quantity_remaining = 1
    /\ items[<<"c1", 1>>] = "0xcc"
    /\ \E a \in activities : a.tx = lastLog.tx /\ a.activity_type = "Sale"
    /\ tradeEvents # << >>
    /\ tradeEvents[Len(tradeEvents)].event_type = "Buy"
    /\ tradeEvents[Len(tradeEvents)].order_id = "L1"

\* C15: a Match event that names an order missing from the orders table is
\* abandoned without any mutation: no order row, item owner, activity row or
\* queue differs from what it was before the event.
C15_MatchOfUnknownOrderMutatesNothing ==
    \A log \in { l \in IngestLogs : l.kind = "Match" } :
        (log.order \notin DOMAIN orders \/ log.take \notin DOMAIN orders)
            => handleMatchEvent(DB, log, {}) = DB

C12_FiresWithinTwoSecondsOfExpiry ==
    [][ now' = now + 1 =>
          \A id \in DOMAIN orders :
              ( /\ orders[id].order_status = OrderStatusActive
                /\ orders'[id].order_status = OrderStatusExpired )
              => /\ now' >= orders[id].expire_time
                 /\ now' - orders[id].expire_time < 2 ]_vars

\* C18: after the ingester has processed the LogMake of a listing A, and
\* while ingester, worker and engine keep taking steps, a state is eventually
\* reached where A is Active with quantity_remaining = size, its Listing
\* activity exists, the heap of its collection holds A at its price and the
\* stored floor is the lowest price of that heap; unless A has left Active
\* in the meantime (cancelled, filled or expired).
C18_MadeListingReachesHeapAndFloor ==
    ( "L1" \in DOMAIN orders )
    ~> ( /\ "L1" \in DOMAIN orders
         /\ \/ orders["L1"].order_status # OrderStatusActive
            \/ /\ orders["L1"].quantity_remaining = orders["L1"].size
               /\ \E a \in activities :
                    a.activity_type = "Listing" /\ a.tx = "tx1"
               /\ \E i \in DOMAIN PriceQueueMap["c1"] :
                    /\ PriceQueueMap["c1"][i].order_id = "L1"
                    /\ PriceQueueMap["c1"][i].price = orders["L1"].price
               /\ floor_price["c1"] = GetMin(PriceQueueMap["c1"]) )

C20_ListedCountEventuallyConsistent ==
    <>[] ( \A c \in Collections :
             listedCount[c] = ListedCount(orders, items, c, now) )

DecodedLogs ==
    { MakeLog("tx1", "L1"), MatchLog("tx8", "T1", "L1", 2) }

\* C25: a Make or Match log whose data fails to decode changes no order,
\* activity, item or queue state; the remaining logs of the batch are still
\* dispatched, one by one in their order, and the batch ends only when all
\* are dispatched, with the cursor at endBlock + 1.
C25_UndecodableLogIsSkipped ==
    [][ /\ (pc = "dispatch" /\ logs # << >> /\ Head(logs) \in DecodedLogs)
              => \A F \in Faults(FaultSitesOf(Head(logs))) :
                     "unpack" \in F => Dispatch(DB, Head(logs), F) = DB
        /\ (pc = "dispatch" /\ pc' = "dispatch" /\ logs' # logs)
              => /\ logs # << >>
                 /\ logs' = Tail(logs)
                 /\ lastLog' = Head(logs)
        /\ (pc = "dispatch" /\ pc' \in {"loop", "updateFailed"})
              => /\ logs = << >>
                 /\ lastSyncBlock' = query[2] + 1 ]_vars

\* the Make log of block 1 failed to decode (no order, no activity, no queue
\* entry of it), the Match log after it was dispatched all the same and the
\* cursor went past the batch
C25_Witness ==
    /\ lastLog = MatchLog("tx8", "T1", "L1", 2)
    /\ orders = << >>
    /\ ordersQueue = << >>
    /\ ~ \E a \in activities : a.tx = "tx1"
    /\ logs = << >>
    /\ pc = "loop"
    /\ last_indexed_block >= 2

TicksLeft(n, idx) ==
    n.CycleCount * WheelSize + ((n.WheelPosition + WheelSize - idx) % WheelSize)

\* C27: insert and tick agree.  An insert with delta = max(0, expire_time -
\* now) at index c puts the node in slot (c + delta mod 3600) mod 3600 with
\* cycle_count = delta div 3600, which is delta ticks away.  A tick moves the
\* index by one slot, so a slot is visited once in 3600 ticks; a node outside
\* the visited slot is kept as it is, a visited node with cycle_count > 0 is
\* kept in its slot with one cycle less, and a visited node with cycle_count
\* = 0 is unlinked and fired.  So each tick brings a waiting node one tick
\* closer, the node fires on the tick after delta ticks have passed, and it
\* is not fired again.
C27_WheelInsertAndTickAgree ==
    [][ /\ Len(wheel') = Len(wheel) + 1
          => LET o     == Head(ordersQueue)
                 delta == IF o.expire_time > now THEN o.expire_time - now ELSE 0
                 n     == wheel'[1]
             IN  /\ n.order_id = o.order_id
                 /\ n.WheelPosition = (CurrentIndex + (delta % 3600)) % 3600
                 /\ n.CycleCount = delta \div 3600
                 /\ TicksLeft(n, CurrentIndex) = delta
                 /\ SubSeq(wheel', 2, Len(wheel')) = wheel
        /\ now' = now + 1
          => /\ CurrentIndex' = (CurrentIndex + 1) % 3600
             /\ \A i \in DOMAIN wheel :
                  LET n == wheel[i]
                  IN  IF n.WheelPosition = CurrentIndex /\ n.CycleCount = 0
                      THEN /\ TicksLeft(n, CurrentIndex) = 0
                           /\ \A j \in DOMAIN wheel' :
                                wheel'[j].order_id # n.order_id
                           /\ orders[n.order_id].order_status = OrderStatusActive
                                => /\ orders'[n.order_id].order_status
                                        = OrderStatusExpired
                                   /\ \E k \in DOMAIN tradeEvents' :
                                        /\ k > Len(tradeEvents)
                                        /\ tradeEvents'[k].event_type = "Expired"
                                        /\ tradeEvents'[k].order_id = n.order_id
                      ELSE \E j \in DOMAIN wheel' :
                             /\ wheel'[j].order_id = n.order_id
                             /\ wheel'[j].WheelPosition = n.WheelPosition
                             /\ wheel'[j].CycleCount =
                                  IF n.WheelPosition = CurrentIndex
                                  THEN n.CycleCount - 1 ELSE n.CycleCount
                             /\ TicksLeft(wheel'[j], CurrentIndex')
                                  = TicksLeft(n, CurrentIndex) - 1
        /\ (wheel = << >> /\ ordersQueue = << >>) => wheel' = << >> ]_vars

\* a node inserted more than one turn before its expiry was visited once
\* with cycle_count 1, was left in its slot with cycle_count 0, and fires at
\* the next tick
C27_Witness ==
    /\ Len(wheel) = 1
    /\ orders["L1"].expire_time = WheelSize + MaxInsertNow + 1
    /\ wheel[1].CycleCount = 0
    /\ wheel[1].WheelPosition = CurrentIndex
    /\ now = orders["L1"].expire_time
    /\ orders["L1"].order_status = OrderStatusActive

C29_ListingKeepsTheLowestEntries ==
    [][ ( /\ Len(tradeEvents') < Len(tradeEvents)
          /\ tradeEvents[1].event_type = "Listing" )
          => LET ev == tradeEvents[1]
                 H  == PriceQueueMap[ev.collection_addr]
                 H1 == PriceQueueMap'[ev.collection_addr]
                 e  == [order_id |-> ev.order_id, price |-> ev.price,
                        maker |-> ev.from, token_id |-> ev.token_id]
                 kept == IF Len(H) < HeapCap THEN Len(H) ELSE Len(H) - 1
             IN  /\ \A i \in 1 .. Len(H1) - 1 : H1[i].price <= H1[i + 1].price
                 /\ IF Len(H) < HeapCap \/ ev.price < H[Len(H)].price
                    THEN /\ Len(H1) = kept + 1
                         /\ \E k \in 1 .. kept + 1 :
                              H1 = SubSeq(H, 1, k - 1) \o << e >>
                                     \o SubSeq(H, k, kept)
                    ELSE H1 = H ]_vars

\* three Listings were applied to a heap of capacity two: the heap holds the
\* two entries of L2, and the dearer L1, published and sitting in the wheel,
\* was either popped as the maximum or turned away by the full heap
C29_Witness ==
    /\ now = 0 /\ nEvents = 3
    /\ ordersQueue = << >> /\ tradeEvents = << >>
    /\ applied.event_type = "Listing"
    /\ \E i \in DOMAIN wheel : wheel[i].order_id = "L1"
    /\ Len(PriceQueueMap["c1"]) = HeapCap
    /\ \A i \in DOMAIN PriceQueueMap["c1"] :
         PriceQueueMap["c1"][i].order_id = "L2"

\* C30: the pending set loses nothing at the swap.  A received address is
\* added to pending, where it is held once however often it is received; it
\* leaves pending only at the 60 s tick, which leaves pending empty and
\* counts every address pending held, and no other; so every received
\* address is in the one batch drained next, in every interleaving of the
\* engine's sends, the receives and the ticks.
C30_PendingSwapLosesNothing ==
    [][ /\ Len(collectionListedCh') < Len(collectionListedCh)
          => /\ pending' = pending \cup {collectionListedCh[1]}
             /\ listedCount' = listedCount
        /\ (\E c \in pending : c \notin pending')
          => /\ pending' = {}
             /\ collectionListedCh' = collectionListedCh
             /\ \A c \in Collections :
                  listedCount'[c] = IF c \in pending
                                    THEN ListedCount(orders, items, c, now)
                                    ELSE listedCount[c]
        /\ pending \subseteq Collections ]_vars

\* a tick drained a batch and counted c1's listing while the next signal of
\* the engine was already waiting in the channel
C30_Witness ==
    /\ pending = {}
    /\ listedCount["c1"] > 0
    /\ listedCount["c1"] = ListedCount(orders, items, "c1", now)
    /\ collectionListedCh = << "c1" >>

\* every long-lived loop has returned or was never started
AllLoopsReturned ==
    /\ pc \in {"off", "cancelled", "initFailed", "updateFailed"}
    /\ \A l \in Loops : loopPc[l] \in {"off", "initFailed", "returned"}

\* C22: once the root context is cancelled, every long-lived loop (ingester,
\* floor-change upkeeping, new-listing worker, wheel ticker, floor engine,
\* count aggregator) eventually returns, also when the ingester sleeps after
\* an error or waits for new blocks at that moment.
C22_LoopsReturnAfterCancel == ctxDone ~> AllLoopsReturned

\* the daemon was cancelled by a signal while the service ran, and the
\* ingester and the five other loops have all returned
C22_Witness ==
    /\ ctxDone
    /\ pc = "cancelled"
    /\ \A l \in Loops : loopPc[l] = "returned"
    /\ onSyncExit = << >>
    /\ last_indexed_block > 12

\* C23: after SIGINT/SIGTERM or a startup error the daemon cancels the root
\* context and Run eventually returns: its wait on the service goroutine
\* completes, for every configuration, Monitor.PprofEnable = true included.
C23_RunReturnsAfterCancel == ctxDone ~> (mainPc = "returned")

\* C24: failing to read the indexed_status row when the ingester starts is
\* fatal: the daemon is told, cancels the root context and exits, instead of
\* running on with the other workers and no ingester.
C24_FailedInitAbortsTheProcess == (pc = "initFailed") ~> ctxDone

\* C31: successive successful batches tile the block numbers.  A batch is
\* requested as [lastSyncBlock, endBlock] with lastSyncBlock <= endBlock; the
\* step that ends a batch moves the cursor to endBlock + 1 and persists that
\* value; and between the end of one batch and the request of the next the
\* cursor does not move unless the process is started again.  So the next
\* batch starts on the block after the last one of the batch before, with no
\* gap and no overlap.
C31_BatchesTileTheBlocks ==
    [][ /\ (query = NoQuery /\ query' # NoQuery)
          => /\ query'[1] = lastSyncBlock
             /\ query'[1] <= query'[2]
             /\ lastSyncBlock' = lastSyncBlock
        /\ (pc = "dispatch" /\ pc' = "loop")
          => /\ lastSyncBlock' = query[2] + 1
             /\ last_indexed_block' = query[2] + 1
        /\ lastSyncBlock' # lastSyncBlock
          => \/ pc = "dispatch" /\ pc' \in {"loop", "updateFailed"}
             \/ pc' = "start"
             \/ pc = "start" /\ lastSyncBlock' = last_indexed_block ]_vars

\* at least two batches were persisted by one process, and the next one is
\* requested from the block after the last batch
C31_Witness ==
    /\ restarts = 0
    /\ pc = "dispatch"
    /\ query # NoQuery
    /\ query[1] = last_indexed_block
    /\ last_indexed_block > SyncBlockPeriod + 1
    /\ query[2] <= currentBlockNum - chainDiff

\* the lowest price among the Active, unexpired listings of collection c
\* whose maker owns the item, zero without one
TrueFloor(c) ==
    LET ids == OwnedListings(orders, items, c, now)
    IN  IF ids = {} THEN 0
        ELSE orders[CHOOSE x \in ids :
                       \A y \in ids : orders[x].price <= orders[y].price].price

\* C32: whenever the listings queue and the trade-event queue are drained
\* (the engine applies an event in one step, so it is idle in every state),
\* the published floor of every collection is the lowest price among its
\* Active, unexpired listings whose maker owns the item, or 0 without one.
C32_FloorIsTheLowestLiveListing ==
    (ordersQueue = << >> /\ tradeEvents = << >>) =>
        \A c \in Collections : floor_price[c] = TrueFloor(c)

-----------------------------------------------------------------------------
\* C34: every listing that is the sell side of a processed Match is
\* eventually not Active, its item belongs to the buyer and it is out of the
\* heap of its collection, also when the buy order of the Match is not in the
\* orders table (a buyer who takes a listing directly made no order before).
\* The stream is Make(L1), Match(T1 takes L1); the Match counts as processed
\* once L1's row carries its result (Filled, taker = the buyer).
C34_MatchedListingLeavesTheHeap ==
    ( /\ "L1" \in DOMAIN orders
      /\ orders["L1"].order_status = OrderStatusFilled
      /\ orders["L1"].taker = ChainOrder("T1").maker )
    ~> ( /\ "L1" \in DOMAIN orders
         /\ orders["L1"].order_status # OrderStatusActive
         /\ items[<<"c1", 1>>] = ToLower(ChainOrder("T1").maker)
         /\ \A i \in DOMAIN PriceQueueMap["c1"] :
                PriceQueueMap["c1"][i].order_id # "L1" )

\* C35: no Active order with a non-zero expire_time stays Active for ever,
\* also when the block-time lookup or the activity insert of its Make handler
\* failed: the listing L1 (expire_time 1), once its row is inserted and its
\* Listing activity is missing, eventually leaves Active (Expired by the
\* wheel or the immediate path, or Filled or Cancelled before that).
C35_ActiveOrderEventuallyExpires ==
    ( /\ "L1" \in DOMAIN orders
      /\ orders["L1"].expire_time # 0
      /\ ~ \E a \in activities :
             a.activity_type = "Listing" /\ a.tx = "tx1" )
    ~> ( /\ "L1" \in DOMAIN orders
         /\ orders["L1"].order_status # OrderStatusActive )

\* C36: processing the same Make more than once creates no duplicates
\* downstream: an order_id is held at most once by the heap of a collection,
\* and its expiry publishes at most one Expired event (the trade queue never
\* holds two Expired events of one order).
C36_ReplayedMakeCreatesNoDuplicates ==
    /\ \A c \in Collections :
         \A i, j \in DOMAIN PriceQueueMap[c] :
            PriceQueueMap[c][i].order_id = PriceQueueMap[c][j].order_id
                => i = j
    /\ \A i, j \in DOMAIN tradeEvents :
         ( /\ tradeEvents[i].event_type = "Expired"
           /\ tradeEvents[j].event_type = "Expired"
           /\ tradeEvents[i].order_id = tradeEvents[j].order_id ) => i = j

\* C37: only orders of type Listing enter a price heap: every entry of a
\* heap names an order whose row is of type Listing, also after a Make of a
\* collection bid or item bid went through the listings queue.
C37_OnlyListingsEnterTheHeap ==
    \A c \in Collections :
        \A i \in DOMAIN PriceQueueMap[c] :
            LET id == PriceQueueMap[c][i].order_id
            IN  id \in DOMAIN orders => orders[id].order_type = ListingOrder

\* C38: a pass of the loop that reads a head below the confirm depth requests
\* no log range and goes to sleep, and the cursor is not advanced on behalf
\* of such a head.
C38_HeadBelowDepthRequestsNothing ==
    [][ /\ ( /\ pc = "loop" /\ pc' \in {"sleep", "dispatch"}
             /\ currentBlockNum' < chainDiff )
            => ( pc' = "sleep" /\ query' = NoQuery )
        /\ ( /\ pc = "dispatch" /\ pc' \in {"loop", "updateFailed"}
             /\ currentBlockNum < chainDiff )
            => lastSyncBlock' = lastSyncBlock ]_vars

-----------------------------------------------------------------------------
(* SpecContract: EasySwapOrderBook.matchOrder, the settlement of one trade  *)
(* in ETH.  The contract's balance is its state; the orders of a call, the  *)
(* caller and msg.value are inputs.                                         *)

\* prices and values are multiples of PriceUnit, up to MaxPrice units
PriceUnit == 50
MaxPrice == 2
\* calls in one behaviour
MaxCalls == 2

Prices == { p * PriceUnit : p \in 0 .. MaxPrice }

\* LibPayInfo.TOTAL_SHARE: shares are in ten-thousandths
TOTAL_SHARE == 10000

\* values of protocolShare
ProtocolShares == {0, 200}

\* _msgSender(): the maker of the sell order, the maker of the buy order, or
\* anyone else
Senders == {"seller", "buyer", "other"}

\* the arguments of a call.  valid stands for the requirements of
\* _isMatchAvailable and _validateOrder that do not read a price or
\* msg.value (sides, kinds, assets, makers, salt, expiry, filled amounts).
\* An order on the book was made with a price above zero (_makeOrderTry).
Calls ==
    { c \in [sender : Senders, sellPrice : Prices, buyPrice : Prices,
             msgValue : Prices, sellOnBook : BOOLEAN, buyOnBook : BOOLEAN,
             valid : BOOLEAN, protocolShare : ProtocolShares] :
        /\ c.sellOnBook => c.sellPrice # 0
        /\ c.buyOnBook => c.buyPrice # 0 }

\* _shareToAmount
_shareToAmount(total, share) == (total * share) \div TOTAL_SHARE

Reverted == [reverted |-> TRUE, costValue |-> 0, withdrawn |-> 0,
             toSeller |-> 0, toBuyer |-> 0, fillPrice |-> 0]

\* _matchOrder: the amount withdrawn from the vault, the transfers to the
\* seller and to the buyer, and costValue
_matchOrder(c) ==
    IF ~c.valid THEN Reverted
    ELSE IF c.sender = "seller"
    THEN \* the seller takes a bid that is on the book
         IF c.msgValue # 0 \/ ~c.buyOnBook \/ c.buyPrice = 0 THEN Reverted
         ELSE LET fillPrice   == c.buyPrice
                  protocolFee == _shareToAmount(fillPrice, c.protocolShare)
              IN  [reverted |-> FALSE, costValue |-> 0,
                   withdrawn |-> fillPrice,
                   toSeller |-> fillPrice - protocolFee, toBuyer |-> 0,
                   fillPrice |-> fillPrice]
    ELSE IF c.sender = "buyer"
    THEN \* the buyer takes a listing that is on the book
         LET isBuyExist  == c.buyOnBook
             buyPrice    == c.buyPrice
             fillPrice   == c.sellPrice
             protocolFee == _shareToAmount(fillPrice, c.protocolShare)
         IN  IF ~c.sellOnBook \/ buyPrice = 0 THEN Reverted
             ELSE IF ~isBuyExist /\ ~(c.msgValue >= fillPrice) THEN Reverted
             ELSE IF isBuyExist /\ ~(buyPrice >= fillPrice) THEN Reverted
             ELSE [reverted |-> FALSE,
                   costValue |-> IF isBuyExist THEN 0 ELSE buyPrice,
                   withdrawn |-> IF isBuyExist THEN buyPrice ELSE 0,
                   toSeller |-> fillPrice - protocolFee,
                   toBuyer |-> IF buyPrice > fillPrice
                               THEN buyPrice - fillPrice ELSE 0,
                   fillPrice |-> fillPrice]
    ELSE Reverted

\* matchOrder called with c while the contract holds bal: _matchOrder, then
\* the refund of msg.value - costValue to the caller.  msg.value and the
\* vault's withdrawal arrive before the first transfer out, so the call goes
\* through when the transfers together are covered by the balance, and
\* reverts as a whole when one of them is not.
MatchOrderCall(c, bal) ==
    LET r      == _matchOrder(c)
        refund == IF c.msgValue > r.costValue
                  THEN c.msgValue - r.costValue ELSE 0
        ethIn  == c.msgValue + r.withdrawn
        ethOut == r.toSeller + r.toBuyer + refund
    IN  [reverted  |-> r.reverted \/ ethOut > bal + ethIn,
         sender    |-> c.sender, buyOnBook |-> c.buyOnBook,
         fillPrice |-> r.fillPrice, buyPrice |-> c.buyPrice,
         msgValue  |-> c.msgValue, ethIn |-> ethIn, ethOut |-> ethOut]

InitContract ==
    /\ DBInit /\ SyncOff /\ ReplayOff /\ OrderManagerInit
    /\ nEvents = 0
    /\ lastLog = NoLog

\* matchOrder: a call that reverts leaves the balance as it was
matchOrder ==
    /\ nCalls < MaxCalls
    /\ \E c \in Calls :
         LET s == MatchOrderCall(c, balance)
         IN  /\ settlement' = s
             /\ balance' = IF s.reverted THEN balance
                           ELSE balance + s.ethIn - s.ethOut
    /\ nCalls' = nCalls + 1
    /\ UNCHANGED << dbVars, nEvents, lastLog, pc, lastSyncBlock,
                    last_indexed_block, currentBlockNum, query, logs, ctxDone,
                    restarts, chainDiff, replayVars, omVars, mainPc, svcPc,
                    onSyncExit, PprofEnable, loopPc >>

\* receive() external payable: anyone sends ETH to the contract
receive ==
    /\ nCalls < MaxCalls
    /\ \E v \in Prices \ {0} : balance' = balance + v
    /\ nCalls' = nCalls + 1
    /\ UNCHANGED << dbVars, nEvents, lastLog, pc, lastSyncBlock,
                    last_indexed_block, currentBlockNum, query, logs, ctxDone,
                    restarts, chainDiff, replayVars, omVars, mainPc, svcPc,
                    onSyncExit, PprofEnable, loopPc, settlement >>

\* withdrawETH: the owner takes protocol income out; a transfer above the
\* balance reverts
withdrawETH ==
    /\ nCalls < MaxCalls
    /\ \E amount \in 1 .. balance : balance' = balance - amount
    /\ nCalls' = nCalls + 1
    /\ UNCHANGED << dbVars, nEvents, lastLog, pc, lastSyncBlock,
                    last_indexed_block, currentBlockNum, query, logs, ctxDone,
                    restarts, chainDiff, replayVars, omVars, mainPc, svcPc,
                    onSyncExit, PprofEnable, loopPc, settlement >>

NextContract == matchOrder \/ receive \/ withdrawETH

SpecContract == InitContract /\ [][NextContract]_vars

\* C39: the ETH the contract sends out for a trade (the seller's proceeds,
\* the refund of buyPrice - fillPrice to the buyer, the refund of unused
\* msg.value) never exceeds the ETH it took in for it (msg.value and the
\* amount withdrawn from the vault for the buy order).
C39_TradePaysOutNoMoreThanItTookIn ==
    ~settlement.reverted => settlement.ethOut <= settlement.ethIn

====
